---- MODULE Spec2Model ----
(***************************************************************************)
(* The roles router of a2 (src/unnamed/part_001) in front of the           *)
(* AccessControlStore (req.app.acl), the authentication gate and the       *)
(* application route registry.                                             *)
(*                                                                         *)
(* Requests are handled concurrently: node runs a handler's code between   *)
(* two store calls atomically, and interleaves requests at store calls.    *)
(* One action is one async.auto task (or one store call of it) together    *)
(* with the callback code that follows the call.                           *)
(*                                                                         *)
(* The store, the gate and the token store are not in src/: they are       *)
(* modelled from spec.md (4.1, 4.2, 4.3).  Backend calls are assumed not   *)
(* to fail on their own; the only store error modelled is existsRole's.    *)
(*                                                                         *)
(* TokenStorage (src/tokenStorage/token-storage.js) forwards each call to  *)
(* its backend; TokenSpec runs it alone, over a clock counting seconds.    *)
(* In Spec the token store holds the router's bearer token and is left     *)
(* alone.                                                                  *)
(***************************************************************************)
EXTENDS Integers, Sequences, FiniteSets, TLC

VARIABLES roles, grants, tokens, now, out, apps, lookups, req

vars == <<roles, grants, tokens, now, out, apps, lookups, req>>

\* The token store, its clock and the outcome of the last call made to it.
tokenVars == <<tokens, now, out>>

routerVars == <<roles, grants, apps, lookups, req>>

\* Number of requests in flight together.
MaxReq == 2

Reqs == 1..MaxReq

RoleNames == {"admin", "editor"}

\* Resource identifiers are strings; a string is the tuple of its characters.
RDocs == <<"d">>

RApp == <<"a", "/", "x">>

\* A resource starting with '/', and a route the application a has already.
RSlash == <<"/", "a">>

ROld == <<"a", "/", "y">>

ResourceNames == {RDocs, RApp}

PermNames == {"read", "write"}

\* The bearer token the requests to the router carry.
TokenNames == {"t1"}

\* The tokens the callers of the token storage save.
TokenKeys == {"t1", "t2"}

\* What a request to the token storage carries: a token, or none.
Bearers == TokenKeys \cup {"none"}

UserData == {"root", "guest"}

\* Lifetimes in seconds.
Lifetimes == {1, 2}

\* The clock stops here.
MaxTime == 3

StoreOps == {"listRoles", "existsRole", "allow", "whatResources",
             "removeRole", "removeAllow", "roleUsers"}

MutatingOps == {"allow", "removeAllow", "removeRole"}

---------------------------------------------------------------------------
(* JavaScript values of a request body                                     *)

Undefined == [t |-> "undefined"]

List(v) == [t |-> "list", v |-> v]

Str(s) == [t |-> "string", v |-> s]

\* A string body field holding a resource identifier (its characters).
Chars(s) == [t |-> "chars", v |-> s]

\* if (x) / !x on a body field: undefined and '' are falsy, every array
\* (the empty one included) and every non-empty string is truthy.
Truthy(x) ==
    \/ x.t = "list"
    \/ x.t = "string" /\ x.v # ""
    \/ x.t = "chars" /\ x.v # <<>>

Range(s) == {s[k] : k \in 1..Len(s)}

\* Array.prototype.indexOf(x) !== -1
Contains(s, x) == \E k \in 1..Len(s) : s[k] = x

---------------------------------------------------------------------------
(* AccessControlStore (spec.md 4.1)                                        *)
(* roles: the role identifiers; grants: (role, resource) -> permissions,   *)
(* an ordered sequence without duplicates.                                 *)

listRoles(rs) == rs

\* The store takes one resource or a list of resources.
MakeArray(x) == IF x.t = "list" THEN x.v ELSE <<x.v>>

existsRole(rs, roleName) == roleName \in rs

whatResources(g, roleName) ==
    [res \in {key[2] : key \in {k \in DOMAIN g : k[1] = roleName}}
        |-> g[<<roleName, res>>]]

\* The grant that appends the permissions without looking at those present.
AppendPerms(old, new) == old \o new

RECURSIVE UnionPerms(_, _)
\* Idempotent union: the permissions not yet present are appended once.
UnionPerms(old, new) ==
    IF new = <<>> THEN old
    ELSE IF Contains(old, Head(new)) THEN UnionPerms(old, Tail(new))
    ELSE UnionPerms(Append(old, Head(new)), Tail(new))

RECURSIVE allowResources(_, _, _, _)
\* allow(role, resources, permissions): creates each resource if absent.
allowResources(g, roleName, resources, permissions) ==
    IF resources = <<>> THEN g
    ELSE LET key == <<roleName, Head(resources)>>
             old == IF key \in DOMAIN g THEN g[key] ELSE <<>>
             g1  == (key :> UnionPerms(old, permissions)) @@ g
         IN  allowResources(g1, roleName, Tail(resources), permissions)

RECURSIVE allowGrants(_, _, _)
\* allow([{roles, allows: [{resources, permissions}, ...]}])
allowGrants(g, roleName, allows) ==
    IF allows = <<>> THEN g
    ELSE allowGrants(
            allowResources(g, roleName, MakeArray(Head(allows).resources),
                           Head(allows).permissions.v),
            roleName, Tail(allows))

removeRoleGrants(g, roleName) ==
    [key \in {k \in DOMAIN g : k[1] # roleName} |-> g[key]]

\* removeAllow(role, resource, permissions): removes the permissions; a
\* resource left without permissions is dropped from the role.
removeAllow(g, roleName, resource, permissions) ==
    LET key == <<roleName, resource>>
    IN  IF key \notin DOMAIN g THEN g
        ELSE LET left == SelectSeq(g[key], LAMBDA p : ~Contains(permissions, p))
             IN  IF left = <<>>
                 THEN [k \in DOMAIN g \ {key} |-> g[k]]
                 ELSE [g EXCEPT ![key] = left]

roleUsers(roleName) == IF roleName = "admin" THEN <<"root">> ELSE <<>>

---------------------------------------------------------------------------
(* Token storage backend (spec.md 4.2): token -> data and expiry instant   *)

EmptyStore == [t \in {} |-> [data |-> "", expires |-> 0]]

\* save: stores the data under the token, overwriting, for ttl seconds.
BackendSave(store, time, token, data, ttl) ==
    (token :> [data |-> data, expires |-> time + ttl]) @@ store

\* The token is in the store and its lifetime has not elapsed.
Resolves(store, time, bearer) ==
    bearer \in DOMAIN store /\ time < store[bearer].expires

\* middleware: the data of a live token, or a miss or expiry error.
BackendResolve(store, time, bearer) ==
    IF bearer \notin DOMAIN store THEN [err |-> "NotFound", user |-> ""]
    ELSE IF time >= store[bearer].expires THEN [err |-> "Expired", user |-> ""]
    ELSE [err |-> "", user |-> store[bearer].data]

\* delete: drops the token of the request; nothing to do without one.
BackendDelete(store, bearer) == [t \in DOMAIN store \ {bearer} |-> store[t]]

BackendClean == EmptyStore

\* The last call on the storage: its name and arguments, and its outcome.
NoCall == [op |-> "", token |-> "", data |-> "", ttl |-> 0,
           err |-> "", user |-> ""]

---------------------------------------------------------------------------
(* Requests                                                                *)

Kinds == {"GET_ROLES", "POST_ROLES", "GET_ROLE", "DELETE_ROLE",
          "POST_RESOURCES", "POST_PERMS", "DELETE_PERM", "DELETE_RESOURCE",
          "GET_RESOURCE", "GET_USERS"}

MutatingKinds == {"POST_ROLES", "DELETE_ROLE", "POST_RESOURCES", "POST_PERMS",
                  "DELETE_PERM", "DELETE_RESOURCE"}

\* The kinds whose route names a role (/:roleName...).
RoleTargetedKinds == Kinds \ {"GET_ROLES", "POST_ROLES"}

NoBody == [roles |-> Undefined, allows |-> Undefined,
           resources |-> Undefined, permissions |-> Undefined]

AllowsValues ==
    {Undefined,
     List(<<[resources |-> List(<<RApp, RSlash, RApp>>),
             permissions |-> List(<<"read">>)]>>)}

ResourcesValues == {Undefined, List(<<RDocs>>)}

PermissionsValues == {Undefined, List(<<>>), List(<<"read", "write">>)}

GrantBodies ==
    {[roles |-> Undefined, allows |-> a, resources |-> r, permissions |-> p] :
        a \in AllowsValues, r \in ResourcesValues, p \in PermissionsValues}

\* A resource given as one string: in the flattened form, and inside allows.
StringResourceBodies ==
    {[NoBody EXCEPT !.resources = Chars(RApp),
                    !.permissions = List(<<"read">>)],
     [NoBody EXCEPT !.allows =
        List(<<[resources |-> Chars(RApp), permissions |-> List(<<"read">>)]>>)]}

Input(kind, roleName, resource, permission, body) ==
    [kind |-> kind, roleName |-> roleName, resource |-> resource,
     permission |-> permission, body |-> body]

Inputs ==
    {Input("GET_ROLES", "", <<>>, "", NoBody)}
    \cup {Input("POST_ROLES", "", <<>>, "", b) : b \in {NoBody} \cup
            {[g EXCEPT !.roles = Str("editor")] :
                g \in GrantBodies \cup StringResourceBodies}}
    \cup {Input(k, rn, <<>>, "", NoBody) :
            k \in {"GET_ROLE", "DELETE_ROLE", "GET_USERS"}, rn \in RoleNames}
    \cup {Input("POST_RESOURCES", "editor", <<>>, "", b) :
            b \in GrantBodies \cup StringResourceBodies}
    \cup {Input("POST_PERMS", "editor", res, "",
                [NoBody EXCEPT !.permissions = p]) :
            res \in ResourceNames,
            p \in {Undefined, List(<<>>), List(<<"write">>)}}
    \cup {Input("POST_PERMS", "admin", RDocs, "",
                [NoBody EXCEPT !.permissions = List(<<"write">>)])}
    \cup {Input("DELETE_PERM", rn, res, p, NoBody) :
            rn \in RoleNames, res \in ResourceNames, p \in PermNames}
    \cup {Input("DELETE_RESOURCE", rn, res, "", NoBody) :
            rn \in RoleNames, res \in ResourceNames}
    \cup {Input("GET_RESOURCE", "editor", res, "", NoBody) :
            res \in ResourceNames}

\* The gate reads the token alone: one request of each kind is sent without
\* a valid token.
UnauthenticatedInputs ==
    {in \in Inputs : in = CHOOSE other \in Inputs : other.kind = in.kind}

Idle ==
    [pc |-> "idle", kind |-> "", token |-> "", roleName |-> "",
     resource |-> <<>>, permission |-> "", body |-> NoBody,
     authed |-> FALSE, status |-> 0, error |-> "", failedAt |-> "",
     calls |-> {}, results |-> <<>>, resp |-> Undefined, dispatched |-> FALSE,
     signals |-> [s \in {} |-> 0], sent |-> 0]

\* The route table with the gate left off the last route.
GatedButDeleteResource(kind) == kind # "DELETE_RESOURCE"

\* router.<method>(path, authentication.authorized, handler): whether the
\* route runs the authentication gate before its handler.
Gated(kind) ==
    CASE kind = "GET_ROLES"       -> TRUE
      [] kind = "POST_ROLES"      -> TRUE
      [] kind = "GET_ROLE"        -> TRUE
      [] kind = "DELETE_ROLE"     -> TRUE
      [] kind = "POST_RESOURCES"  -> TRUE
      [] kind = "POST_PERMS"      -> TRUE
      [] kind = "DELETE_PERM"     -> TRUE
      [] kind = "DELETE_RESOURCE" -> TRUE
      [] kind = "GET_RESOURCE"    -> TRUE
      [] kind = "GET_USERS"       -> TRUE

\* The first task of each handler.
FirstPc(kind) ==
    CASE kind = "GET_ROLES"       -> "listRoles"
      [] kind = "POST_ROLES"      -> "validate"
      [] kind = "GET_ROLE"        -> "validate"
      [] kind = "DELETE_ROLE"     -> "validate"
      [] kind = "POST_RESOURCES"  -> "validate"
      [] kind = "POST_PERMS"      -> "checkRole"
      [] kind = "DELETE_PERM"     -> "checkRole"
      [] kind = "DELETE_RESOURCE" -> "validate"
      [] kind = "GET_RESOURCE"    -> "existsRole"
      [] kind = "GET_USERS"       -> "existsRole"

\* The tasks of a mutating handler that run before its mutation task.
ValidationStages(kind) ==
    CASE kind = "POST_ROLES"      -> {"validate"}
      [] kind = "DELETE_ROLE"     -> {"validate"}
      [] kind = "POST_RESOURCES"  -> {"validate", "checkRole"}
      [] kind = "POST_PERMS"      -> {"checkRole", "validate"}
      [] kind = "DELETE_PERM"     -> {"checkRole", "validate"}
      [] kind = "DELETE_RESOURCE" -> {"validate"}
      [] OTHER                    -> {}

\* The tasks handed to async.auto by the handler of each route.
Stages(kind) ==
    CASE kind = "POST_ROLES"      -> {"validate", "addRole"}
      [] kind = "GET_ROLE"        -> {"validate", "get"}
      [] kind = "DELETE_ROLE"     -> {"validate", "delete"}
      [] kind = "POST_RESOURCES"  -> {"validate", "checkRole", "addResources"}
      [] kind = "POST_PERMS"      -> {"checkRole", "validate", "addPermissions"}
      [] kind = "DELETE_PERM"     -> {"checkRole", "validate", "removePermissions"}
      [] kind = "DELETE_RESOURCE" -> {"validate", "deleteResources"}
      [] OTHER                    -> {}

\* done(...) called by a task: one more completion signal of that task.
Signal(r, task) ==
    IF task \in DOMAIN r.signals THEN [r EXCEPT !.signals[task] = @ + 1] ELSE r

\* A store call made by the request.
Call(r, op) == [r EXCEPT !.calls = @ \cup {op}]

\* done(null, value) of an async.auto task: the next task may run.
Pass(r, task, value, nextPc) ==
    [Signal(r, task) EXCEPT !.results = (task :> value) @@ @, !.pc = nextPc]

\* next(err): the error is forwarded and the request ends with it.
NextErr(r, task, status, error) ==
    [r EXCEPT !.pc = "done", !.status = status, !.error = error,
              !.failedAt = task, !.sent = @ + 1]

\* done(err) of a task, whose final callback calls next(err); outside
\* async.auto, next(err) itself.
Fail(r, task, status, error) == NextErr(Signal(r, task), task, status, error)

\* An exception thrown inside a task: the task never calls done and the
\* handler neither answers nor calls next.
Thrown(r, task, error) ==
    [r EXCEPT !.pc = "done", !.error = error, !.failedAt = task]

\* res.json(body) / res.send(body)
Respond(r, body) ==
    [r EXCEPT !.pc = "done", !.status = 200, !.resp = body, !.sent = @ + 1]

\* existsRole's error: the role does not exist (status 400).
NoRole(r, task) == Fail(r, task, 400, "RoleNotFound")

Set(i, r) == req' = [req EXCEPT ![i] = r]

At(i, kind, pc) == req[i].kind = kind /\ req[i].pc = pc

StoreUnchanged == UNCHANGED <<roles, grants>>

---------------------------------------------------------------------------
(* updateAppRoutes and the application route registry                      *)

\* resc[0] === '/'
LeadingSlash(resc) == Len(resc) > 0 /\ resc[1] = "/"

\* resc.split('/')[0]
AppName(resc) ==
    LET slashes == {k \in 1..Len(resc) : resc[k] = "/"}
    IN  IF slashes = {} THEN resc
        ELSE SubSeq(resc, 1, (CHOOSE k \in slashes : \A m \in slashes : k <= m) - 1)

RECURSIVE ConcatResources(_)
\* resources = resources.concat(obj.resources) over req.body.allows: concat
\* appends the elements of an array, and a string as one element.
ConcatResources(allows) ==
    IF allows = <<>> THEN <<>>
    ELSE LET resources == Head(allows).resources
         IN  (IF resources.t = "list" THEN resources.v ELSE <<resources.v>>)
             \o ConcatResources(Tail(allows))

GrantedResources(body) ==
    IF Truthy(body.allows) THEN ConcatResources(body.allows.v)
    ELSE body.resources.v

\* resources.forEach(...) with resources = req.body.resources a string:
\* a string has no forEach, the call throws a TypeError.
Throws(body) == ~Truthy(body.allows) /\ body.resources.t # "list"

\* newAppRoutes: prefix -> the granted resources of that prefix.
NewAppRoutes(resources) ==
    LET named == SelectSeq(resources, LAMBDA resc : ~LeadingSlash(resc))
    IN  [prefix \in {AppName(resc) : resc \in Range(named)}
            |-> SelectSeq(named, LAMBDA resc : AppName(resc) = prefix)]

\* The findOne lookups updateAppRoutes(req) dispatches, one per prefix.
updateAppRoutes(i, body) ==
    LET new == NewAppRoutes(GrantedResources(body))
    IN  {[req |-> i, prefix |-> p, routes |-> new[p]] : p \in DOMAIN new}

\* The push without the indexOf test.
PushAll(routes, new) == routes \o new

RECURSIVE PushMissing(_, _)
\* if (data.routes.indexOf(r) === -1) data.routes.push(r)
PushMissing(routes, new) ==
    IF new = <<>> THEN routes
    ELSE IF Contains(routes, Head(new)) THEN PushMissing(routes, Tail(new))
    ELSE PushMissing(Append(routes, Head(new)), Tail(new))

\* The callback of one findOne: the application, when found, gets the
\* routes it lacks and is saved; a lookup error is dropped.
RouteLookup(l) ==
    /\ l \in lookups
    /\ lookups' = lookups \ {l}
    /\ \E err \in BOOLEAN :
          IF ~err /\ l.prefix \in DOMAIN apps
          THEN apps' = [apps EXCEPT ![l.prefix] = PushMissing(@, l.routes)]
          ELSE UNCHANGED apps
    /\ UNCHANGED <<roles, grants, tokenVars, req>>

---------------------------------------------------------------------------
(* Arrival, the authentication gate and the token store                    *)

\* A request arrives; requests take the slots in order.
Start(i) ==
    /\ req[i].pc = "idle"
    /\ \A j \in Reqs : j < i => req[j].pc # "idle"
    /\ \E tok \in TokenNames \cup {"none"} :
       \E in \in IF tok \in TokenNames THEN Inputs ELSE UnauthenticatedInputs :
          Set(i, [Idle EXCEPT !.kind = in.kind, !.token = tok,
                              !.roleName = in.roleName,
                              !.resource = in.resource,
                              !.permission = in.permission,
                              !.body = in.body,
                              !.signals = [s \in Stages(in.kind) |-> 0],
                              !.pc = IF Gated(in.kind) THEN "gate"
                                     ELSE FirstPc(in.kind)])
    /\ UNCHANGED <<roles, grants, tokenVars, apps, lookups>>

\* authentication.authorized: the bearer token resolves to a saved,
\* unexpired, undeleted token, or the request ends with status 403.
Authorized(i) ==
    /\ req[i].pc = "gate"
    /\ IF Resolves(tokens, now, req[i].token)
       THEN Set(i, [req[i] EXCEPT !.authed = TRUE, !.pc = FirstPc(req[i].kind)])
       ELSE Set(i, Fail(req[i], "gate", 403, "Unauthenticated"))
    /\ UNCHANGED <<roles, grants, tokenVars, apps, lookups>>

---------------------------------------------------------------------------
(* GET /roles                                                              *)

GetRoles(i) ==
    /\ At(i, "GET_ROLES", "listRoles")
    /\ Set(i, Respond(Call(req[i], "listRoles"), listRoles(roles)))
    /\ UNCHANGED <<roles, grants, tokenVars, apps, lookups>>

---------------------------------------------------------------------------
(* POST /roles                                                             *)

\* The check with an exclusive or between the two forms.
GrantFormExclusive(body) ==
    Truthy(body.allows) # (Truthy(body.resources) /\ Truthy(body.permissions))

\* !(!req.body.allows && (!req.body.resources || !req.body.permissions))
GrantFormPresent(body) ==
    Truthy(body.allows) \/ (Truthy(body.resources) /\ Truthy(body.permissions))

\* The lookup made with a name the body does not hold (always -1).
RoleListedOtherName(listed, roleName) == "" \in listed

\* roles.indexOf(roleName) !== -1
RoleListed(listed, roleName) == roleName \in listed

PostRolesValidate(i) ==
    /\ At(i, "POST_ROLES", "validate")
    /\ LET r == req[i]
           c == Call(r, "listRoles")
       IN  IF ~Truthy(r.body.roles)
           THEN Set(i, Fail(r, "validate", 400, "RolesRequired"))
           ELSE IF ~GrantFormPresent(r.body)
           THEN Set(i, Fail(r, "validate", 400, "GrantRequired"))
           ELSE IF RoleListed(listRoles(roles), r.body.roles.v)
           THEN Set(i, Fail(c, "validate", 400, "RoleExists"))
           ELSE Set(i, Pass(c, "validate", Undefined, "addRole"))
    /\ UNCHANGED <<roles, grants, tokenVars, apps, lookups>>

\* The grants of a request body under roleName, in either call shape.
allow(g, roleName, body) ==
    IF Truthy(body.allows)
    THEN allowGrants(g, roleName, body.allows.v)
    ELSE allowResources(g, roleName, MakeArray(body.resources),
                        body.permissions.v)

\* The allow call is issued and updateAppRoutes(req) runs at once, before
\* the store has answered.  When updateAppRoutes throws, the task never
\* returns: the exception leaves through the store callback that started
\* the task.  Either it is dropped there and the allow call completes as
\* usual, or it ends the request, with the allow applied or lost.
PostRolesAddRole(i) ==
    /\ At(i, "POST_ROLES", "addRole")
    /\ LET r == req[i]
           c == Call(r, "allow")
       IN  IF Throws(r.body)
           THEN /\ \/ /\ Set(i, [c EXCEPT !.pc = "allowing"])
                      /\ StoreUnchanged
                   \/ /\ Set(i, Thrown(c, "addRole", "TypeError"))
                      /\ \/ StoreUnchanged
                         \/ /\ roles' = roles \cup {r.body.roles.v}
                            /\ grants' = allow(grants, r.body.roles.v, r.body)
                /\ UNCHANGED lookups
           ELSE /\ Set(i, [c EXCEPT !.pc = "allowing", !.dispatched = TRUE])
                /\ lookups' = lookups \cup updateAppRoutes(i, r.body)
                /\ StoreUnchanged
    /\ UNCHANGED <<tokenVars, apps>>

\* The store applies the allow and answers: done(err, result).
PostRolesAllowed(i) ==
    /\ At(i, "POST_ROLES", "allowing")
    /\ roles' = roles \cup {req[i].body.roles.v}
    /\ grants' = allow(grants, req[i].body.roles.v, req[i].body)
    /\ Set(i, Pass(req[i], "addRole", Undefined, "final"))
    /\ UNCHANGED <<tokenVars, apps, lookups>>

PostRolesFinal(i) ==
    /\ At(i, "POST_ROLES", "final")
    /\ Set(i, Respond(Call(req[i], "listRoles"), listRoles(roles)))
    /\ UNCHANGED <<roles, grants, tokenVars, apps, lookups>>

---------------------------------------------------------------------------
(* GET /roles/:roleName                                                    *)

\* The task calling done() whatever existsRole answers.
CheckRoleIgnored(i, task, nextPc) ==
    Set(i, Pass(Call(req[i], "existsRole"), task, Undefined, nextPc))

\* req.app.acl.existsRole(roleName, done) as a whole task.
CheckRole(i, task, nextPc) ==
    LET c == Call(req[i], "existsRole")
    IN  IF existsRole(roles, req[i].roleName)
        THEN Set(i, Pass(c, task, Undefined, nextPc))
        ELSE Set(i, NoRole(c, task))

GetRoleValidate(i) ==
    /\ At(i, "GET_ROLE", "validate")
    /\ CheckRole(i, "validate", "get")
    /\ UNCHANGED <<roles, grants, tokenVars, apps, lookups>>

\* get: on a whatResources error done(err) is called without a return,
\* and done(null, result) after it: the task signals twice.  async.auto
\* runs the final callback for the first signal alone.
GetRoleGet(i) ==
    /\ At(i, "GET_ROLE", "get")
    /\ LET c == Call(req[i], "whatResources")
       IN  IF ~existsRole(roles, req[i].roleName)
           THEN Set(i, Signal(NoRole(c, "get"), "get"))
           ELSE Set(i, Respond(Signal(c, "get"),
                               whatResources(grants, req[i].roleName)))
    /\ UNCHANGED <<roles, grants, tokenVars, apps, lookups>>

---------------------------------------------------------------------------
(* DELETE /roles/:roleName                                                 *)

\* The guard comparing against a differently cased name.
IndestructibleOtherCase(roleName) == roleName = "Admin"

\* roleName === 'admin'
Indestructible(roleName) == roleName = "admin"

DeleteRoleValidate(i) ==
    /\ At(i, "DELETE_ROLE", "validate")
    /\ IF Indestructible(req[i].roleName)
       THEN Set(i, Fail(req[i], "validate", 403, "Indestructible"))
       ELSE CheckRole(i, "validate", "delete")
    /\ UNCHANGED <<roles, grants, tokenVars, apps, lookups>>

DeleteRoleDelete(i) ==
    /\ At(i, "DELETE_ROLE", "delete")
    /\ LET c == Call(req[i], "removeRole")
       IN  IF ~existsRole(roles, req[i].roleName)
           THEN /\ Set(i, NoRole(c, "delete"))
                /\ StoreUnchanged
           ELSE /\ Set(i, Pass(c, "delete", Undefined, "final"))
                /\ roles' = roles \ {req[i].roleName}
                /\ grants' = removeRoleGrants(grants, req[i].roleName)
    /\ UNCHANGED <<tokenVars, apps, lookups>>

DeleteRoleFinal(i) ==
    /\ At(i, "DELETE_ROLE", "final")
    /\ Set(i, Respond(Call(req[i], "listRoles"), listRoles(roles)))
    /\ UNCHANGED <<roles, grants, tokenVars, apps, lookups>>

---------------------------------------------------------------------------
(* POST /roles/:roleName/resources                                         *)

PostResourcesValidate(i) ==
    /\ At(i, "POST_RESOURCES", "validate")
    /\ IF ~GrantFormPresent(req[i].body)
       THEN Set(i, Fail(req[i], "validate", 400, "GrantRequired"))
       ELSE Set(i, Pass(req[i], "validate", Undefined, "checkRole"))
    /\ UNCHANGED <<roles, grants, tokenVars, apps, lookups>>

PostResourcesCheckRole(i) ==
    /\ At(i, "POST_RESOURCES", "checkRole")
    /\ CheckRole(i, "checkRole", "addResources")
    /\ UNCHANGED <<roles, grants, tokenVars, apps, lookups>>

\* In the allows form the body gets roles = roleName before the call.
PostResourcesAddResources(i) ==
    /\ At(i, "POST_RESOURCES", "addResources")
    /\ LET r == req[i]
           body == IF Truthy(r.body.allows)
                   THEN [r.body EXCEPT !.roles = Str(r.roleName)]
                   ELSE r.body
           c == [Call(r, "allow") EXCEPT !.body = body]
       IN  IF Throws(body)
           THEN /\ \/ /\ Set(i, [c EXCEPT !.pc = "allowing"])
                      /\ StoreUnchanged
                   \/ /\ Set(i, Thrown(c, "addResources", "TypeError"))
                      /\ \/ StoreUnchanged
                         \/ /\ roles' = roles \cup {r.roleName}
                            /\ grants' = allow(grants, r.roleName, body)
                /\ UNCHANGED lookups
           ELSE /\ Set(i, [c EXCEPT !.pc = "allowing", !.dispatched = TRUE])
                /\ lookups' = lookups \cup updateAppRoutes(i, body)
                /\ StoreUnchanged
    /\ UNCHANGED <<tokenVars, apps>>

PostResourcesAllowed(i) ==
    /\ At(i, "POST_RESOURCES", "allowing")
    /\ roles' = roles \cup {req[i].roleName}
    /\ grants' = allow(grants, req[i].roleName, req[i].body)
    /\ Set(i, Pass(req[i], "addResources", Undefined, "final"))
    /\ UNCHANGED <<tokenVars, apps, lookups>>

PostResourcesFinal(i) ==
    /\ At(i, "POST_RESOURCES", "final")
    /\ LET c == Call(req[i], "whatResources")
       IN  IF ~existsRole(roles, req[i].roleName)
           THEN Set(i, NoRole(c, "final"))
           ELSE Set(i, Respond(c, whatResources(grants, req[i].roleName)))
    /\ UNCHANGED <<roles, grants, tokenVars, apps, lookups>>

---------------------------------------------------------------------------
(* POST /roles/:roleName/resources/*/permissions                           *)

PostPermsCheckRole(i) ==
    /\ At(i, "POST_PERMS", "checkRole")
    /\ CheckRole(i, "checkRole", "validate")
    /\ UNCHANGED <<roles, grants, tokenVars, apps, lookups>>

\* !result[resource]: the role's view has no entry for the resource (an
\* entry holding an empty list is an entry).
NoResource(result, resource) == resource \notin DOMAIN result

\* validate with the return before done(err) missing: the error is
\* recorded and the next task runs all the same.
PostPermsValidateNoReturn(i) ==
    /\ At(i, "POST_PERMS", "validate")
    /\ LET r == req[i]
           c == Call(r, "whatResources")
           failed == [c EXCEPT !.status = 400, !.error = "ResourceNotFound",
                               !.failedAt = "validate"]
       IN  IF ~Truthy(r.body.permissions)
           THEN Set(i, Fail(r, "validate", 400, "PermissionsRequired"))
           ELSE IF ~existsRole(roles, r.roleName)
           THEN Set(i, NoRole(c, "validate"))
           ELSE IF NoResource(whatResources(grants, r.roleName), r.resource)
           THEN Set(i, Pass(failed, "validate", Undefined, "addPermissions"))
           ELSE Set(i, Pass(c, "validate", Undefined, "addPermissions"))
    /\ UNCHANGED <<roles, grants, tokenVars, apps, lookups>>

PostPermsValidate(i) ==
    /\ At(i, "POST_PERMS", "validate")
    /\ LET r == req[i]
           c == Call(r, "whatResources")
       IN  IF ~Truthy(r.body.permissions)
           THEN Set(i, Fail(r, "validate", 400, "PermissionsRequired"))
           ELSE IF ~existsRole(roles, r.roleName)
           THEN Set(i, NoRole(c, "validate"))
           ELSE IF NoResource(whatResources(grants, r.roleName), r.resource)
           THEN Set(i, Fail(c, "validate", 400, "ResourceNotFound"))
           ELSE Set(i, Pass(c, "validate", Undefined, "addPermissions"))
    /\ UNCHANGED <<roles, grants, tokenVars, apps, lookups>>

PostPermsAddPermissions(i) ==
    /\ At(i, "POST_PERMS", "addPermissions")
    /\ roles' = roles \cup {req[i].roleName}
    /\ grants' = allowResources(grants, req[i].roleName, <<req[i].resource>>,
                                req[i].body.permissions.v)
    /\ Set(i, Pass(Call(req[i], "allow"), "addPermissions", Undefined, "final"))
    /\ UNCHANGED <<tokenVars, apps, lookups>>

\* The final callback answering with the permissions of the request body.
PostPermsFinalEcho(i) ==
    /\ At(i, "POST_PERMS", "final")
    /\ LET c == Call(req[i], "whatResources")
       IN  IF ~existsRole(roles, req[i].roleName)
           THEN Set(i, NoRole(c, "final"))
           ELSE Set(i, Respond(c, req[i].body.permissions))
    /\ UNCHANGED <<roles, grants, tokenVars, apps, lookups>>

\* res.json(result[resource]): undefined when the resource is gone.
PostPermsFinal(i) ==
    /\ At(i, "POST_PERMS", "final")
    /\ LET r == req[i]
           c == Call(r, "whatResources")
           result == whatResources(grants, r.roleName)
       IN  IF ~existsRole(roles, r.roleName)
           THEN Set(i, NoRole(c, "final"))
           ELSE Set(i, Respond(c, IF NoResource(result, r.resource)
                                  THEN Undefined
                                  ELSE List(result[r.resource])))
    /\ UNCHANGED <<roles, grants, tokenVars, apps, lookups>>

---------------------------------------------------------------------------
(* DELETE /roles/:roleName/resources/*/permissions/:permissionName         *)

DelPermCheckRole(i) ==
    /\ At(i, "DELETE_PERM", "checkRole")
    /\ CheckRole(i, "checkRole", "validate")
    /\ UNCHANGED <<roles, grants, tokenVars, apps, lookups>>

\* The guard with its bound off by one.
IsLastPermissionOffByOne(permissions) == Len(permissions) < 1

\* The guard refusing the second-to-last permission as well.
IsSecondToLastPermission(permissions) == Len(permissions) < 3

\* result[resource].length < 2
IsLastPermission(permissions) == Len(permissions) < 2

DelPermValidate(i) ==
    /\ At(i, "DELETE_PERM", "validate")
    /\ LET r == req[i]
           c == Call(r, "whatResources")
           result == whatResources(grants, r.roleName)
       IN  IF ~existsRole(roles, r.roleName)
           THEN Set(i, NoRole(c, "validate"))
           ELSE IF NoResource(result, r.resource)
           THEN Set(i, Fail(c, "validate", 400, "ResourceNotFound"))
           ELSE IF IsLastPermission(result[r.resource])
           THEN Set(i, Fail(c, "validate", 400, "LastPermission"))
           ELSE IF ~Contains(result[r.resource], r.permission)
           THEN Set(i, Fail(c, "validate", 400, "PermissionNotFound"))
           ELSE Set(i, Pass(c, "validate", Undefined, "removePermissions"))
    /\ UNCHANGED <<roles, grants, tokenVars, apps, lookups>>

DelPermRemovePermissions(i) ==
    /\ At(i, "DELETE_PERM", "removePermissions")
    /\ grants' = removeAllow(grants, req[i].roleName, req[i].resource,
                             <<req[i].permission>>)
    /\ Set(i, Pass(Call(req[i], "removeAllow"), "removePermissions",
                   Undefined, "final"))
    /\ UNCHANGED <<roles, tokenVars, apps, lookups>>

\* res.send(result[resource] || [])
DelPermFinal(i) ==
    /\ At(i, "DELETE_PERM", "final")
    /\ LET r == req[i]
           c == Call(r, "whatResources")
           result == whatResources(grants, r.roleName)
       IN  IF ~existsRole(roles, r.roleName)
           THEN Set(i, NoRole(c, "final"))
           ELSE Set(i, Respond(c, IF NoResource(result, r.resource)
                                  THEN List(<<>>)
                                  ELSE List(result[r.resource])))
    /\ UNCHANGED <<roles, grants, tokenVars, apps, lookups>>

---------------------------------------------------------------------------
(* DELETE /roles/:roleName/resources/*                                     *)

\* validate, first call: existsRole.
DelResValidate(i) ==
    /\ At(i, "DELETE_RESOURCE", "validate")
    /\ LET c == Call(req[i], "existsRole")
       IN  IF existsRole(roles, req[i].roleName)
           THEN Set(i, [c EXCEPT !.pc = "validate.what"])
           ELSE Set(i, NoRole(c, "validate"))
    /\ UNCHANGED <<roles, grants, tokenVars, apps, lookups>>

\* validate, second call: whatResources; done(null, result[resource]).  A
\* whatResources error goes to next(err) directly, without done.
DelResValidateWhat(i) ==
    /\ At(i, "DELETE_RESOURCE", "validate.what")
    /\ LET r == req[i]
           c == Call(r, "whatResources")
           result == whatResources(grants, r.roleName)
       IN  IF ~existsRole(roles, r.roleName)
           THEN Set(i, NextErr(c, "validate", 400, "RoleNotFound"))
           ELSE IF NoResource(result, r.resource)
           THEN Set(i, Fail(c, "validate", 400, "ResourceNotFound"))
           ELSE Set(i, Pass(c, "validate", List(result[r.resource]),
                            "deleteResources"))
    /\ UNCHANGED <<roles, grants, tokenVars, apps, lookups>>

\* removeAllow(roleName, resource, results.validate, done)
DelResDeleteResources(i) ==
    /\ At(i, "DELETE_RESOURCE", "deleteResources")
    /\ grants' = removeAllow(grants, req[i].roleName, req[i].resource,
                             req[i].results["validate"].v)
    /\ Set(i, Pass(Call(req[i], "removeAllow"), "deleteResources",
                   Undefined, "final"))
    /\ UNCHANGED <<roles, tokenVars, apps, lookups>>

DelResFinal(i) ==
    /\ At(i, "DELETE_RESOURCE", "final")
    /\ LET c == Call(req[i], "whatResources")
       IN  IF ~existsRole(roles, req[i].roleName)
           THEN Set(i, NoRole(c, "final"))
           ELSE Set(i, Respond(c, whatResources(grants, req[i].roleName)))
    /\ UNCHANGED <<roles, grants, tokenVars, apps, lookups>>

---------------------------------------------------------------------------
(* GET /roles/:roleName/resources/* and GET /roles/:roleName/users         *)

GetResourceExists(i) ==
    /\ At(i, "GET_RESOURCE", "existsRole")
    /\ CheckRole(i, "existsRole", "whatResources")
    /\ UNCHANGED <<roles, grants, tokenVars, apps, lookups>>

GetResourceWhat(i) ==
    /\ At(i, "GET_RESOURCE", "whatResources")
    /\ LET r == req[i]
           c == Call(r, "whatResources")
           result == whatResources(grants, r.roleName)
       IN  IF ~existsRole(roles, r.roleName)
           THEN Set(i, NoRole(c, "whatResources"))
           ELSE IF NoResource(result, r.resource)
           THEN Set(i, Fail(c, "whatResources", 400, "ResourceNotFound"))
           ELSE Set(i, Respond(c, List(result[r.resource])))
    /\ UNCHANGED <<roles, grants, tokenVars, apps, lookups>>

GetUsersExists(i) ==
    /\ At(i, "GET_USERS", "existsRole")
    /\ CheckRole(i, "existsRole", "roleUsers")
    /\ UNCHANGED <<roles, grants, tokenVars, apps, lookups>>

GetUsersRoleUsers(i) ==
    /\ At(i, "GET_USERS", "roleUsers")
    /\ LET c == Call(req[i], "roleUsers")
       IN  IF ~existsRole(roles, req[i].roleName)
           THEN Set(i, NoRole(c, "roleUsers"))
           ELSE Set(i, Respond(c, List(roleUsers(req[i].roleName))))
    /\ UNCHANGED <<roles, grants, tokenVars, apps, lookups>>

---------------------------------------------------------------------------
(* The system                                                              *)

AdminOnly == <<"admin", RDocs>> :> <<"read">>

\* The registered applications: prefix -> routes.
InitApps == <<"a">> :> <<ROld>>

\* The store survives restarts: it starts with the admin role alone, or
\* with an editor role created by an earlier POST /roles.
InitStores ==
    {[roles |-> {"admin"}, grants |-> AdminOnly],
     [roles |-> {"admin", "editor"},
      grants |-> (<<"editor", RDocs>> :> <<"read", "write">>) @@ AdminOnly]}

Init ==
    /\ \E s \in InitStores : roles = s.roles /\ grants = s.grants
    /\ tokens = [t \in TokenNames |-> [data |-> "root", expires |-> 1]]
    /\ now = 0
    /\ out = NoCall
    /\ apps = InitApps
    /\ lookups = {}
    /\ req = [i \in Reqs |-> Idle]

Handler(i) ==
    \/ GetRoles(i)
    \/ PostRolesValidate(i) \/ PostRolesAddRole(i)
    \/ PostRolesAllowed(i) \/ PostRolesFinal(i)
    \/ GetRoleValidate(i) \/ GetRoleGet(i)
    \/ DeleteRoleValidate(i) \/ DeleteRoleDelete(i) \/ DeleteRoleFinal(i)
    \/ PostResourcesValidate(i) \/ PostResourcesCheckRole(i)
    \/ PostResourcesAddResources(i) \/ PostResourcesAllowed(i)
    \/ PostResourcesFinal(i)
    \/ PostPermsCheckRole(i) \/ PostPermsValidate(i)
    \/ PostPermsAddPermissions(i) \/ PostPermsFinal(i)
    \/ DelPermCheckRole(i) \/ DelPermValidate(i)
    \/ DelPermRemovePermissions(i) \/ DelPermFinal(i)
    \/ DelResValidate(i) \/ DelResValidateWhat(i)
    \/ DelResDeleteResources(i) \/ DelResFinal(i)
    \/ GetResourceExists(i) \/ GetResourceWhat(i)
    \/ GetUsersExists(i) \/ GetUsersRoleUsers(i)

Next ==
    \/ \E i \in Reqs : Start(i) \/ Authorized(i) \/ Handler(i)
    \/ \E l \in lookups : RouteLookup(l)

Spec == Init /\ [][Next]_vars

---------------------------------------------------------------------------
(* TokenStorage (src/tokenStorage/token-storage.js) over its backend       *)

\* save with the lifetime left out of the call to the backend: the token
\* is stored without expiry.
saveWithoutExpiration(token, data, expirationInSec) ==
    /\ tokens' = BackendSave(tokens, now, token, data, MaxTime + 2)
    /\ out' = [NoCall EXCEPT !.op = "save", !.token = token, !.data = data,
                           !.ttl = expirationInSec]
    /\ UNCHANGED <<now, routerVars>>

\* this.save: backend.save(token, data, expirationInSec, callback)
save(token, data, expirationInSec) ==
    /\ tokens' = BackendSave(tokens, now, token, data, expirationInSec)
    /\ out' = [NoCall EXCEPT !.op = "save", !.token = token, !.data = data,
                           !.ttl = expirationInSec]
    /\ UNCHANGED <<now, routerVars>>

\* middleware calling next() itself, without the backend.
middlewareOpen(bearer) ==
    /\ out' = [NoCall EXCEPT !.op = "middleware", !.token = bearer]
    /\ UNCHANGED <<tokens, now, routerVars>>

\* this.middleware: backend.middleware(req, res, next); req.user is set, or
\* next(err) is called.
middleware(bearer) ==
    /\ LET r == BackendResolve(tokens, now, bearer)
       IN  out' = [NoCall EXCEPT !.op = "middleware", !.token = bearer,
                               !.err = r.err, !.user = r.user]
    /\ UNCHANGED <<tokens, now, routerVars>>

\* delete without the call to the backend.
deleteIgnored(bearer) ==
    /\ out' = [NoCall EXCEPT !.op = "delete", !.token = bearer]
    /\ UNCHANGED <<tokens, now, routerVars>>

\* delete calling the backend's clean.
deleteEverything(bearer) ==
    /\ tokens' = BackendClean
    /\ out' = [NoCall EXCEPT !.op = "delete", !.token = bearer]
    /\ UNCHANGED <<now, routerVars>>

\* this.delete: backend.delete(req); nothing is returned or passed on.
delete(bearer) ==
    /\ tokens' = BackendDelete(tokens, bearer)
    /\ out' = [NoCall EXCEPT !.op = "delete", !.token = bearer]
    /\ UNCHANGED <<now, routerVars>>

\* this.clean: backend.clean()
clean ==
    /\ tokens' = BackendClean
    /\ out' = [NoCall EXCEPT !.op = "clean"]
    /\ UNCHANGED <<now, routerVars>>

\* One second passes.
Tick ==
    /\ now < MaxTime
    /\ now' = now + 1
    /\ UNCHANGED <<tokens, out, routerVars>>

TokenInit ==
    /\ tokens = EmptyStore
    /\ now = 0
    /\ out = NoCall
    /\ roles = {"admin"}
    /\ grants = AdminOnly
    /\ apps = InitApps
    /\ lookups = {}
    /\ req = [i \in Reqs |-> Idle]

TokenNext ==
    \/ \E token \in TokenKeys, data \in UserData, ttl \in Lifetimes :
          save(token, data, ttl)
    \/ \E bearer \in Bearers : middleware(bearer)
    \/ \E bearer \in Bearers : delete(bearer)
    \/ clean
    \/ Tick

TokenSpec == TokenInit /\ [][TokenNext]_vars

---------------------------------------------------------------------------
(* Properties                                                              *)

Stepped(i) == req'[i] # req[i]

Key(i) == <<req[i].roleName, req[i].resource>>

\* C1 (last-permission protection): a DELETE-permission request whose
\* validation finds exactly one permission on the resource ends with status
\* 400, never calls removeAllow and leaves the permissions as they are; one
\* that finds two or more, the named one among them, goes on to remove, and
\* its removal takes exactly that permission from the resource.
C1_ValidateStep(i) ==
    (At(i, "DELETE_PERM", "validate") /\ Stepped(i)
        /\ req[i].roleName \in roles /\ Key(i) \in DOMAIN grants)
    => /\ Len(grants[Key(i)]) = 1
            => /\ req'[i].pc = "done"
               /\ req'[i].status = 400
               /\ req'[i].error = "LastPermission"
               /\ "removeAllow" \notin req'[i].calls
               /\ grants' = grants
       /\ (Len(grants[Key(i)]) >= 2
              /\ req[i].permission \in Range(grants[Key(i)]))
            => /\ req'[i].pc = "removePermissions"
               /\ req'[i].error = ""

C1_RemoveStep(i) ==
    (At(i, "DELETE_PERM", "removePermissions") /\ Stepped(i)
        /\ Key(i) \in DOMAIN grants /\ Len(grants[Key(i)]) >= 2
        /\ req[i].permission \in Range(grants[Key(i)]))
    => /\ DOMAIN grants' = DOMAIN grants
       /\ \A k \in DOMAIN grants : k # Key(i) => grants'[k] = grants[k]
       /\ grants'[Key(i)] =
             SelectSeq(grants[Key(i)], LAMBDA p : p # req[i].permission)
       /\ roles' = roles
       /\ req'[i].pc = "final" /\ req'[i].error = ""

C2_EveryResourceHasPermission ==
    \A key \in DOMAIN grants : Len(grants[key]) >= 1

\* C3 (the admin role is indestructible): a DELETE-role request naming admin
\* ends with status 403, never calls removeRole and never changes the store;
\* no request calls removeRole on admin, and admin stays a role.
C3_AdminIndestructible ==
    /\ [](/\ "admin" \in roles
          /\ \A i \in Reqs :
                (req[i].kind = "DELETE_ROLE" /\ req[i].roleName = "admin")
                => /\ "removeRole" \notin req[i].calls
                   /\ req[i].pc = "done" => req[i].status = 403)
    /\ [][\A i \in Reqs :
            (req[i].kind = "DELETE_ROLE" /\ req[i].roleName = "admin"
                /\ Stepped(i))
            => roles' = roles /\ grants' = grants]_vars

C3_Witness ==
    \E i \in Reqs :
        /\ req[i].kind = "DELETE_ROLE" /\ req[i].roleName = "admin"
        /\ req[i].authed /\ req[i].pc = "done"
        /\ req[i].error = "Indestructible"

\* The stage of the validation protocol an error belongs to.
ErrorClass(error) ==
    CASE error \in {"RolesRequired", "GrantRequired", "PermissionsRequired"}
            -> "structural"
      [] error \in {"RoleNotFound", "ResourceNotFound", "PermissionNotFound",
                    "RoleExists"}
            -> "existence"
      [] error \in {"LastPermission", "Indestructible"} -> "semantic"
      [] OTHER -> "other"

AtLeastOneForm(body) ==
    body.allows.t # "undefined"
    \/ (body.resources.t # "undefined" /\ body.permissions.t # "undefined")

ExactlyOneForm(body) ==
    (body.allows.t # "undefined")
    # (body.resources.t # "undefined" /\ body.permissions.t # "undefined")

\* A required field of the request r is missing.
StructuralFails(r) ==
    CASE r.kind = "POST_ROLES"
            -> r.body.roles.t = "undefined" \/ ~AtLeastOneForm(r.body)
      [] r.kind = "POST_RESOURCES" -> ~AtLeastOneForm(r.body)
      [] r.kind = "POST_PERMS" -> r.body.permissions.t = "undefined"
      [] OTHER -> FALSE

\* The role, resource or permission the request r names is not where the
\* request needs it (for POST /roles: the role is there already).
ExistenceFails(r) ==
    LET key == <<r.roleName, r.resource>>
    IN  \/ /\ r.kind \in RoleTargetedKinds
           /\ \/ r.roleName \notin roles
              \/ /\ r.kind \in {"POST_PERMS", "DELETE_PERM", "DELETE_RESOURCE"}
                 /\ key \notin DOMAIN grants
              \/ /\ r.kind = "DELETE_PERM"
                 /\ key \in DOMAIN grants
                 /\ r.permission \notin Range(grants[key])
        \/ /\ r.kind = "POST_ROLES"
           /\ r.body.roles.t = "string"
           /\ r.body.roles.v \in roles

\* C4 (as claimed): when a mutating request ends with an error, the error is
\* that of the earliest failing stage in the order structural, existence,
\* semantic.
C4_ErrorPrecedence ==
    [][\A i \in Reqs :
        (req[i].kind \in MutatingKinds /\ req[i].authed
            /\ req[i].pc # "done" /\ req'[i].pc = "done"
            /\ req'[i].error # "")
        => ErrorClass(req'[i].error) =
              IF StructuralFails(req[i]) THEN "structural"
              ELSE IF ExistenceFails(req[i]) THEN "existence"
              ELSE "semantic"]_vars

\* C5 (fail-fast, no partial mutation): a mutating request calls allow,
\* removeAllow or removeRole only after every validation task of its handler
\* has passed, a request that failed validation has called none of them, and
\* only a step of such a validated request changes the store.
C5_FailFast ==
    /\ [](\A i \in Reqs :
            req[i].kind \in MutatingKinds
            => /\ req[i].calls \cap MutatingOps # {}
                    => /\ ValidationStages(req[i].kind) \subseteq
                              DOMAIN req[i].results
                       /\ req[i].authed
               /\ req[i].failedAt \in ValidationStages(req[i].kind) \cup {"gate"}
                    => req[i].calls \cap MutatingOps = {})
    /\ [][\A i \in Reqs :
            (Stepped(i) /\ (roles' # roles \/ grants' # grants))
            => /\ ValidationStages(req[i].kind) \subseteq DOMAIN req[i].results
               /\ req[i].error = ""
               /\ req'[i].calls \cap MutatingOps # {}]_vars

C5_Witness ==
    \E i, j \in Reqs :
        /\ req[i].kind \in MutatingKinds
        /\ req[i].failedAt \in ValidationStages(req[i].kind)
        /\ req[i].calls # {}
        /\ req[j].status = 200 /\ req[j].calls \cap MutatingOps # {}

\* The grant requests whose structural validation of the form has run.
FormChecked(i) ==
    /\ req[i].authed
    /\ req[i].pc \notin {"idle", "gate", "validate"}
    /\ \/ req[i].kind = "POST_RESOURCES"
       \/ req[i].kind = "POST_ROLES" /\ req[i].body.roles.t # "undefined"

\* C6 (amended): structural validation of a grant payload rejects it, with
\* status 400 and before any store call, exactly when neither the allows
\* form nor the resources-with-permissions form is present; a payload
\* holding both forms is accepted.
C6_GrantFormRequired ==
    \A i \in Reqs :
        FormChecked(i)
        => /\ req[i].error = "GrantRequired" <=> ~AtLeastOneForm(req[i].body)
           /\ req[i].error = "GrantRequired"
                => req[i].pc = "done" /\ req[i].status = 400
                   /\ req[i].calls = {}

C6_Witness ==
    \E i, j \in Reqs :
        /\ FormChecked(i) /\ req[i].status = 200
        /\ req[i].body.allows.t # "undefined"
        /\ req[i].body.resources.t # "undefined"
        /\ req[i].body.permissions.t # "undefined"
        /\ FormChecked(j) /\ req[j].error = "GrantRequired"
        /\ req[j].body.resources.t # "undefined"

\* C6 (as claimed): the payload is accepted if and only if exactly one of the
\* two forms is present.
C6_ExactlyOneForm ==
    \A i \in Reqs :
        FormChecked(i)
        => (req[i].error = "GrantRequired" <=> ~ExactlyOneForm(req[i].body))

\* A step of an authenticated role-targeted request that has not yet asked
\* existsRole, taken while its role is absent.
AbsentRoleStep(i) ==
    /\ req[i].kind \in RoleTargetedKinds
    /\ req[i].authed
    /\ req[i].pc # "done"
    /\ "existsRole" \notin req[i].calls
    /\ req[i].roleName \notin roles
    /\ Stepped(i)

\* C7 (amended): an authenticated request that targets an absent role fails
\* and creates nothing: with the existsRole error, except that POST resources
\* with a payload failing structural validation fails with that error first
\* (and DELETE role admin with the indestructible error); the role stays
\* absent and the store is unchanged.
C7_NoImplicitCreation ==
    [][\A i \in Reqs :
        AbsentRoleStep(i)
        => /\ roles' = roles /\ grants' = grants
           /\ req'[i].calls \cap MutatingOps = {}
           /\ \/ /\ req'[i].pc = "done"
                 /\ req'[i].status = 400
                 /\ req'[i].error = "RoleNotFound"
                 /\ "existsRole" \in req'[i].calls
              \/ /\ req[i].kind = "POST_RESOURCES"
                 /\ ~AtLeastOneForm(req[i].body)
                 /\ req'[i].pc = "done"
                 /\ req'[i].status = 400
                 /\ req'[i].error = "GrantRequired"
              \/ /\ req[i].kind = "POST_RESOURCES"
                 /\ AtLeastOneForm(req[i].body)
                 /\ req[i].pc = "validate"
                 /\ req'[i].pc = "checkRole"
                 /\ req'[i].calls = {}
              \/ /\ req[i].kind = "DELETE_ROLE"
                 /\ req[i].roleName = "admin"
                 /\ req'[i].pc = "done"
                 /\ req'[i].status = 403]_vars

C7_Witness ==
    \E i, j \in Reqs :
        /\ req[i].kind = "POST_RESOURCES" /\ req[i].error = "RoleNotFound"
        /\ req[i].failedAt = "checkRole"
        /\ req[j].kind = "DELETE_PERM" /\ req[j].error = "RoleNotFound"
        /\ "editor" \notin roles
        /\ \A key \in DOMAIN grants : key[1] # "editor"

\* C7 (as claimed): every request that targets an absent role fails with the
\* existsRole error.
C7_AlwaysExistsRoleError ==
    [][\A i \in Reqs :
        (AbsentRoleStep(i) /\ req'[i].pc = "done")
        => req'[i].error = "RoleNotFound"]_vars

\* C8 (creating an existing role is refused): a POST /roles request whose
\* validation finds its role name among the listed roles ends with status
\* 400 "already exists", never calls allow and leaves the store unchanged.
C8_ExistingRoleRefused ==
    /\ [](\A i \in Reqs :
            req[i].error = "RoleExists"
            => req[i].pc = "done" /\ req[i].status = 400
               /\ "allow" \notin req[i].calls)
    /\ [][\A i \in Reqs :
            (At(i, "POST_ROLES", "validate") /\ Stepped(i)
                /\ req[i].body.roles.t = "string"
                /\ AtLeastOneForm(req[i].body)
                /\ req[i].body.roles.v \in roles)
            => /\ req'[i].pc = "done"
               /\ req'[i].status = 400
               /\ req'[i].error = "RoleExists"
               /\ "allow" \notin req'[i].calls
               /\ roles' = roles /\ grants' = grants]_vars

C8_Witness ==
    \E i \in Reqs :
        /\ req[i].kind = "POST_ROLES" /\ req[i].error = "RoleExists"
        /\ "listRoles" \in req[i].calls
        /\ <<"editor", RDocs>> \in DOMAIN grants
        /\ grants[<<"editor", RDocs>>] = <<"read", "write">>

\* C9 (authentication gate): a request has made a store call only if the
\* gate passed for it, its token being one the token store resolves.
C9_AuthenticationGate ==
    \A i \in Reqs :
        req[i].calls # {}
        => req[i].authed /\ Resolves(tokens, now, req[i].token)

C9_Witness ==
    \E i, j \in Reqs :
        /\ ~Resolves(tokens, now, req[i].token) /\ req[i].pc = "done"
        /\ req[i].status = 403 /\ req[i].calls = {}
        /\ req[j].authed /\ req[j].calls # {}

\* C10 (as claimed): the removal of a DELETE-permission request never takes
\* the last permissions of its resource: two concurrent requests on a
\* resource holding two permissions do not both remove.
C10_RemovalNeverEmpties ==
    [][\A i \in Reqs :
        (At(i, "DELETE_PERM", "removePermissions") /\ Stepped(i)
            /\ Key(i) \in DOMAIN grants)
        => Key(i) \in DOMAIN grants']_vars

\* The task of a mutating handler that calls the store's mutation.
MutationTask(kind) ==
    CASE kind = "POST_ROLES"      -> "addRole"
      [] kind = "DELETE_ROLE"     -> "delete"
      [] kind = "POST_RESOURCES"  -> "addResources"
      [] kind = "POST_PERMS"      -> "addPermissions"
      [] kind = "DELETE_PERM"     -> "removePermissions"
      [] kind = "DELETE_RESOURCE" -> "deleteResources"

\* What the store answers, in the state s = [roles, grants], to the read the
\* final callback of request r makes.
StoreView(r, rs, g) ==
    LET result == whatResources(g, r.roleName)
    IN  CASE r.kind \in {"POST_ROLES", "DELETE_ROLE"} -> listRoles(rs)
          [] r.kind \in {"POST_RESOURCES", "DELETE_RESOURCE"} -> result
          [] r.kind = "POST_PERMS" ->
                IF r.resource \in DOMAIN result
                THEN List(result[r.resource]) ELSE Undefined
          [] r.kind = "DELETE_PERM" ->
                IF r.resource \in DOMAIN result
                THEN List(result[r.resource]) ELSE List(<<>>)

\* The response of request r shows r's own mutation.
ShowsOwnMutation(r) ==
    CASE r.kind = "POST_ROLES"      -> r.body.roles.v \in r.resp
      [] r.kind = "DELETE_ROLE"     -> r.roleName \notin r.resp
      [] r.kind = "POST_RESOURCES"  ->
            \A res \in Range(IF Truthy(r.body.allows)
                              THEN ConcatResources(r.body.allows.v)
                              ELSE MakeArray(r.body.resources)) :
                res \in DOMAIN r.resp
      [] r.kind = "POST_PERMS"      ->
            /\ r.resp.t = "list"
            /\ Range(r.body.permissions.v) \subseteq Range(r.resp.v)
      [] r.kind = "DELETE_PERM"     -> ~Contains(r.resp.v, r.permission)
      [] r.kind = "DELETE_RESOURCE" -> r.resource \notin DOMAIN r.resp

\* C11 (responses are re-read views): a mutating request answers 200 only
\* after its mutation task has completed, and the body it sends is what the
\* store holds at that moment (listRoles for create/delete role, whatResources
\* for resource and permission mutations), not the payload; when no other
\* request has mutated the store, that view shows the request's own mutation.
C11_ResponseIsReRead ==
    /\ [][\A i \in Reqs :
            (req[i].kind \in MutatingKinds /\ req[i].pc # "done"
                /\ req'[i].pc = "done" /\ req'[i].status = 200)
            => /\ req[i].calls \cap MutatingOps # {}
               /\ MutationTask(req[i].kind) \in DOMAIN req[i].results
               /\ req'[i].resp = StoreView(req[i], roles, grants)
               /\ roles' = roles /\ grants' = grants]_vars
    /\ [](\A i \in Reqs :
            (/\ req[i].kind \in MutatingKinds
             /\ req[i].pc = "done" /\ req[i].status = 200
             /\ \A j \in Reqs \ {i} : req[j].calls \cap MutatingOps = {})
            => ShowsOwnMutation(req[i]))

C11_Witness ==
    \E i \in Reqs :
        /\ req[i].kind = "POST_PERMS" /\ req[i].status = 200
        /\ req[i].body.permissions = List(<<"write">>)
        /\ req[i].resp = List(<<"read", "write">>)
        /\ "allow" \in req[i].calls

NoDuplicates(s) == \A k, m \in 1..Len(s) : s[k] = s[m] => k = m

IsPrefix(s, u) == Len(s) <= Len(u) /\ SubSeq(u, 1, Len(s)) = s

\* C12 (granting is an idempotent union): every permission list of the store
\* holds each permission once; a step of a granting request removes no
\* resource and no permission; and the allow of a POST-permissions request
\* leaves on its resource exactly the permissions that were there together
\* with those of the request, each once, so that a repeated or overlapping
\* grant changes nothing it finds.
C12_IdempotentUnion ==
    /\ [](\A key \in DOMAIN grants : NoDuplicates(grants[key]))
    /\ [][\A i \in Reqs :
            (req[i].kind \in {"POST_ROLES", "POST_RESOURCES", "POST_PERMS"}
                /\ Stepped(i))
            => /\ \A key \in DOMAIN grants :
                    key \in DOMAIN grants' /\ IsPrefix(grants[key], grants'[key])
               /\ At(i, "POST_PERMS", "addPermissions")
                    => LET old == IF Key(i) \in DOMAIN grants
                                  THEN grants[Key(i)] ELSE <<>>
                       IN  /\ Key(i) \in DOMAIN grants'
                           /\ Range(grants'[Key(i)]) =
                                 Range(old) \cup Range(req[i].body.permissions.v)
                           /\ NoDuplicates(grants'[Key(i)])
                           /\ \A key \in DOMAIN grants' \ {Key(i)} :
                                 key \in DOMAIN grants
                                 /\ grants'[key] = grants[key]]_vars

C12_Witness ==
    \E i, j \in Reqs :
        /\ i # j
        /\ req[i].kind = "POST_PERMS" /\ req[j].kind = "POST_PERMS"
        /\ req[i].status = 200 /\ req[j].status = 200
        /\ Key(i) = <<"admin", RDocs>> /\ Key(j) = Key(i)
        /\ req[i].body.permissions = List(<<"write">>)
        /\ req[j].body.permissions = List(<<"write">>)
        /\ "allow" \in req[i].calls /\ "allow" \in req[j].calls
        /\ grants[Key(i)] = <<"read", "write">>

\* The one (resources, permissions) pair a grant body carries, in the form
\* the handler applies.
GrantPair(body) ==
    IF Truthy(body.allows)
    THEN <<body.allows.v[1].resources, body.allows.v[1].permissions>>
    ELSE <<body.resources, body.permissions>>

\* C13 (as claimed): a grant request for (R, P) has the same effect in the
\* allows-list form and in the flattened form: its add task issues the allow
\* and dispatches the route lookups of R, the store then holds the grant of
\* P on R for the role, whatever shape carried R and P.
C13_ShapesEquivalent ==
    [][\A i \in Reqs :
        (req[i].kind \in {"POST_ROLES", "POST_RESOURCES"} /\ Stepped(i)
            /\ req[i].pc \in {"addRole", "addResources", "allowing"})
        => LET body == req[i].body
               R == MakeArray(GrantPair(body)[1])
               P == GrantPair(body)[2].v
               role == IF req[i].kind = "POST_ROLES" THEN body.roles.v
                       ELSE req[i].roleName
               new == NewAppRoutes(R)
           IN  IF req[i].pc = "allowing"
               THEN /\ grants' = allowResources(grants, role, R, P)
                    /\ roles' = roles \cup {role}
                    /\ req'[i].pc = "final"
               ELSE /\ req'[i].pc = "allowing"
                    /\ "allow" \in req'[i].calls
                    /\ lookups' = lookups \cup
                          {[req |-> i, prefix |-> p, routes |-> new[p]] :
                              p \in DOMAIN new}
                    /\ roles' = roles /\ grants' = grants]_vars

\* A step of a DELETE-permission request at the task pc, taken while its
\* resource holds exactly two permissions, the named one among them.
SecondToLastStep(i, pc) ==
    /\ At(i, "DELETE_PERM", pc) /\ Stepped(i)
    /\ req[i].roleName \in roles
    /\ Key(i) \in DOMAIN grants
    /\ Len(grants[Key(i)]) = 2
    /\ req[i].permission \in Range(grants[Key(i)])

C15_NotificationBestEffort ==
    [][/\ \A i \in Reqs :
            (req[i].kind \in {"POST_ROLES", "POST_RESOURCES"}
                /\ req[i].pc \in {"addRole", "addResources"} /\ Stepped(i))
            => /\ req'[i].pc = "allowing"
               /\ req'[i].error = ""
               /\ "allow" \in req'[i].calls
       /\ lookups' \subseteq lookups /\ lookups' # lookups
            => req' = req /\ roles' = roles /\ grants' = grants]_vars

\* C19 (as claimed): updateAppRoutes is dispatched for a grant request only
\* after the allow of that request has completed: a request whose route
\* lookups were dispatched, or are pending, has its add task done.
C19_DispatchAfterCommit ==
    /\ \A i \in Reqs :
          req[i].dispatched => MutationTask(req[i].kind) \in DOMAIN req[i].results
    /\ \A l \in lookups :
          MutationTask(req[l.req].kind) \in DOMAIN req[l.req].results

\* C20 (as claimed): the removal of a DELETE-resource request takes the whole
\* resource from the role and nothing else, whatever was granted on the
\* resource since the request read its permissions.
C20_ResourceRemovedEntirely ==
    [][\A i \in Reqs :
        (At(i, "DELETE_RESOURCE", "deleteResources") /\ Stepped(i))
        => /\ Key(i) \notin DOMAIN grants'
           /\ \A key \in DOMAIN grants \ {Key(i)} :
                 key \in DOMAIN grants' /\ grants'[key] = grants[key]
           /\ roles' = roles]_vars

\* C16 (token expiry): a save of a token leaves it resolving to the saved
\* data at every instant before its lifetime has elapsed since the save and
\* failing with the expiry error at every instant from then on, whatever
\* the token held before (the data is overwritten and the lifetime starts
\* again); the middleware attaches the data of a live token and fails,
\* attaching nothing, on an expired one; the passing of time changes no entry.
C16_TokenExpiry ==
    [][/\ \A token \in TokenKeys, data \in UserData, ttl \in Lifetimes :
            save(token, data, ttl)
            => \A n \in now..(MaxTime + 2) :
                  BackendResolve(tokens', n, token) =
                     IF n - now < ttl THEN [err |-> "", user |-> data]
                     ELSE [err |-> "Expired", user |-> ""]
       /\ \A bearer \in TokenKeys :
            (middleware(bearer) /\ bearer \in DOMAIN tokens)
            => IF now < tokens[bearer].expires
               THEN out'.err = "" /\ out'.user = tokens[bearer].data
               ELSE out'.err = "Expired" /\ out'.user = ""
       /\ Tick => tokens' = tokens]_vars

C16_Witness ==
    /\ out.op = "middleware" /\ out.token = "t1" /\ out.err = "Expired"
    /\ "t1" \in DOMAIN tokens /\ tokens["t1"].expires = 1 /\ now = 2
    /\ "t2" \in DOMAIN tokens /\ Resolves(tokens, now, "t2")

\* C17 (amended): a token that does not resolve (never saved, expired,
\* deleted or wiped) stays unresolvable through every step but a save of
\* that token; delete leaves the token of its request unresolvable and clean
\* leaves every token unresolvable.
C17_NoResurrectionButBySave ==
    [][/\ \A token \in TokenKeys :
            (~Resolves(tokens, now, token) /\ Resolves(tokens', now', token))
            => \E data \in UserData, ttl \in Lifetimes : save(token, data, ttl)
       /\ \A bearer \in Bearers :
            delete(bearer) => ~Resolves(tokens', now', bearer)
       /\ clean => \A token \in TokenKeys : ~Resolves(tokens', now', token)]_vars

C17_Witness ==
    /\ out.op = "middleware" /\ out.token = "t2" /\ out.err = "Expired"
    /\ "t2" \in DOMAIN tokens /\ now >= tokens["t2"].expires
    /\ "t1" \notin DOMAIN tokens

\* C17 (as claimed): once a token has expired, or has just been deleted or
\* wiped, no later step makes it resolve again.
C17_NoResurrection ==
    [][\A token \in TokenKeys :
        (\/ token \in DOMAIN tokens /\ now >= tokens[token].expires
         \/ out.op = "delete" /\ out.token = token /\ token \notin DOMAIN tokens
         \/ out.op = "clean" /\ token \notin DOMAIN tokens)
        => ~Resolves(tokens', now', token)]_vars

\* C18 (deletion is idempotent and never an error): delete reports no
\* error; on a request whose token is not in the store (or that carries
\* none) it leaves the store as it is; it leaves every other token
\* unchanged; and deleting again changes nothing more.
C18_DeleteIdempotent ==
    [][\A bearer \in Bearers :
        delete(bearer)
        => /\ out'.err = ""
           /\ bearer \notin DOMAIN tokens => tokens' = tokens
           /\ bearer \notin DOMAIN tokens'
           /\ \A token \in DOMAIN tokens \ {bearer} :
                 token \in DOMAIN tokens' /\ tokens'[token] = tokens[token]
           /\ BackendDelete(tokens', bearer) = tokens']_vars

C18_Witness ==
    /\ out.op = "delete" /\ out.token = "none" /\ out.err = ""
    /\ DOMAIN tokens = TokenKeys

\* C21 (as claimed): no request has two outcomes and no async.auto task
\* signals completion twice: a request that has ended has sent at most one
\* response or error, and each task of its handler has called done at most
\* once; when whatResources fails in GET /roles/:roleName the get task
\* reports the error and nothing after it.
C21_NeverTwice ==
    \A i \in Reqs :
        req[i].pc = "done"
        => /\ req[i].sent <= 1
           /\ \A task \in DOMAIN req[i].signals : req[i].signals[task] <= 1

\* C22 (as claimed): role creation is exclusive: of the POST /roles
\* requests naming the same role, at most one has its allow completed (no
\* request having removed the role in between), the others having failed.
C22_CreationExclusive ==
    \A i, j \in Reqs :
        (/\ i # j
         /\ req[i].kind = "POST_ROLES" /\ req[j].kind = "POST_ROLES"
         /\ "addRole" \in DOMAIN req[i].results
         /\ req[i].body.roles = req[j].body.roles
         /\ \A k \in Reqs : "removeRole" \notin req[k].calls)
        => "addRole" \notin DOMAIN req[j].results

\* The resources a grant request asks for.
Granted(r) ==
    Range(IF Truthy(r.body.allows) THEN ConcatResources(r.body.allows.v)
          ELSE MakeArray(r.body.resources))

====
